---- MODULE Spec2Model ----
(***************************************************************************)
(* The single-pass floor planner of halo2_proofs                           *)
(* (circuit/floor_planner/single_pass.rs): SingleChipLayouter, its region  *)
(* commit view SingleChipLayouterRegion and its table commit view          *)
(* SimpleTableLayouter, driving a constraint-system sink `cs`.             *)
(*                                                                         *)
(* A region definition (the closure handed to assign_region) is a finite   *)
(* sequence of region operations; it is run once against the shape probe   *)
(* and once against the commit view.  The sink is an external collaborator *)
(* and is modelled by its contents: the cells written (with the writer),   *)
(* the equality constraints, the forward fills and call counters.  The     *)
(* sink rejects a cell write on a row it has no room for (cs.usable); the  *)
(* sink of Spec has room for every row the bounded runs can reach.         *)
(***************************************************************************)
EXTENDS Integers, Sequences, FiniteSets, TLC

VARIABLES
    constants,      \* SingleChipLayouter.constants: Vec<Column<Fixed>>
    regions,        \* SingleChipLayouter.regions: Vec<RegionStart>
    columns,        \* SingleChipLayouter.columns: HashMap<RegionColumn, usize>
    table_columns,  \* SingleChipLayouter.table_columns: Vec<TableColumn>
    cs,             \* the constraint-system sink
    shapes,         \* the shape the probe found for each region, by index
    batch,          \* the assign_regions call in flight (workers, sub-sinks)
    table,          \* the assign_table call in flight (SimpleTableLayouter)
    last,           \* what the last finished call was given and returned
    calls           \* number of regions and tables submitted so far

vars ==
    <<constants, regions, columns, table_columns, cs, shapes, batch, table, last,
      calls>>

----------------------------------------------------------------------------
(* Bounds of the model *)

MaxCalls == 2       \* regions and tables submitted during one lifetime
MaxOps == 2         \* operations of one region definition
MaxOffset == 1      \* largest local row offset a definition uses
MaxBatchOps == 2    \* operations of all region definitions of one batch
MaxTableOps == 3    \* assign_cell calls of one table definition

\* A sink that never runs out of rows within the bounds above.
LargeSink == (MaxCalls + 1) * (MaxOffset + 1) + (MaxCalls + 1) * MaxOps + 1

----------------------------------------------------------------------------
(* Columns *)

Advice(i) == [kind |-> "advice", index |-> i]
Fixed(i) == [kind |-> "fixed", index |-> i]
Selector(i) == [kind |-> "selector", index |-> i]
Instance(i) == [kind |-> "instance", index |-> i]

\* The columns region definitions write to.  Fixed(0) is the column the
\* configuration designates for constants (when it designates any).
AdviceColumns == {Advice(0)}
FixedColumns == {Fixed(0)}
Selectors == {Selector(0)}
Offsets == 0 .. MaxOffset
Values == {1, 2}

\* The fixed columns that table definitions assign to.
TableColumns == {Fixed(2), Fixed(3)}

\* circuit::Cell
Cell(region_index, row_offset, column) ==
    [region_index |-> region_index, row_offset |-> row_offset, column |-> column]

Max(a, b) == IF a >= b THEN a ELSE b

----------------------------------------------------------------------------
(* Region definitions *)

\* One call of the region-definition logic on the Region it is given.  The
\* cell of constrain_constant is one the current region returned (its own
\* region index is filled in when the operation runs).  constrain_equal
\* ties such a cell to a cell of the region of index right_region: the
\* current region itself or one placed before it.  return_err is the
\* definition returning an error of its own at that point, on whichever
\* pass it is running.
RegionOps ==
    [op : {"assign_advice"}, column : AdviceColumns, offset : Offsets]
    \cup [op : {"assign_fixed"}, column : FixedColumns, offset : Offsets]
    \cup [op : {"enable_selector"}, column : Selectors, offset : {0}]
    \cup [op : {"assign_advice_from_constant"}, column : AdviceColumns,
          offset : Offsets, constant : Values]
    \cup [op : {"constrain_constant"}, column : AdviceColumns,
          offset : {0}, constant : Values]
    \cup [op : {"assign_advice_from_instance"}, column : AdviceColumns,
          offset : {0}, instance : {Instance(0)}, row : {0}]
    \cup [op : {"constrain_equal"}, column : AdviceColumns, offset : {0},
          right_region : {0}, right_offset : Offsets]
    \cup [op : {"return_err"}]

Assignments == UNION {[1 .. n -> RegionOps] : n \in 0 .. MaxOps}

\* Whether an operation before the i-th one of the definition has assigned
\* (column, offset), so that the definition holds the Cell it returned.
OwnCell(assignment, i, column, offset) ==
    \E j \in 1 .. (i - 1) :
        /\ assignment[j].op \in {"assign_advice", "assign_fixed",
                                 "assign_advice_from_constant",
                                 "assign_advice_from_instance"}
        /\ assignment[j].column = column
        /\ assignment[j].offset = offset

\* A definition only constrains Cells that an assignment has returned: to
\* itself, or to the definition of a region placed before (written is what
\* the earlier regions assigned, as (region index, column, local offset)).
CellsReturned(assignment, region_index, written) ==
    \A i \in DOMAIN assignment :
        LET o == assignment[i]
        IN  /\ o.op = "constrain_constant" =>
                OwnCell(assignment, i, o.column, o.offset)
            /\ o.op = "constrain_equal" =>
                /\ OwnCell(assignment, i, o.column, o.offset)
                /\ IF o.right_region = region_index
                   THEN OwnCell(assignment, i, o.column, o.right_offset)
                   ELSE <<o.right_region, o.column, o.right_offset>> \in written

\* Operations that write a cell of a column (and so take space in it).
IsWrite(o) ==
    o.op \in {"assign_advice", "assign_fixed", "enable_selector",
              "assign_advice_from_constant", "assign_advice_from_instance"}

----------------------------------------------------------------------------
(* The shape probe (circuit::layouter::RegionShape) *)

\* The region-column keys a definition touches: a selector is a key of its
\* own kind, never the key of the advice or fixed column of the same index.
ShapeColumns(assignment) ==
    {assignment[i].column : i \in {j \in DOMAIN assignment : IsWrite(assignment[j])}}

RECURSIVE ShapeRowCountFrom(_, _)
ShapeRowCountFrom(assignment, i) ==
    IF i > Len(assignment) THEN 0
    ELSE LET rest == ShapeRowCountFrom(assignment, i + 1)
         IN  IF IsWrite(assignment[i])
             THEN Max(rest, assignment[i].offset + 1)
             ELSE rest

\* One plus the largest offset written, 0 for a region that writes nothing.
ShapeRowCount(assignment) == ShapeRowCountFrom(assignment, 1)

Shape(assignment) ==
    [columns |-> ShapeColumns(assignment), row_count |-> ShapeRowCount(assignment)]

\* The result of the definition run against the probe: the probe's own
\* operations never fail, the definition may.
Probe(assignment) ==
    IF \E i \in DOMAIN assignment : assignment[i].op = "return_err"
    THEN "DefinitionError"
    ELSE "Ok"

----------------------------------------------------------------------------
(* The sink *)

CsNew(usable) ==
    [usable |-> usable, cells |-> {}, copies |-> {}, copy_count |-> 0,
     fills |-> {}, fill_count |-> 0, entered |-> 0, exited |-> 0]

\* Whether the sink takes a write on this row.
CsAccepts(sink, row) == row < sink.usable

\* Who issued a write or a copy: the commit view of a region, the constant
\* resolver or a table.
ByRegion(region_index) == <<"region", region_index>>
ByConstant == <<"constant", 0>>
ByTable(call) == <<"table", call>>

\* assign_advice / assign_fixed / enable_selector, with the writer `by`.
CsAssign(sink, column, row, value, by) ==
    [sink EXCEPT !.cells = @ \cup
        {[column |-> column, row |-> row, value |-> value, by |-> by]}]

CsCopy(sink, left_column, left_row, right_column, right_row, by) ==
    [sink EXCEPT
        !.copies = @ \cup
            {[left_column |-> left_column, left_row |-> left_row,
              right_column |-> right_column, right_row |-> right_row, by |-> by]},
        !.copy_count = @ + 1]

CsEnterRegion(sink) == [sink EXCEPT !.entered = @ + 1]

CsExitRegion(sink) == [sink EXCEPT !.exited = @ + 1]

CsFillFromRow(sink, column, from_row, value) ==
    [sink EXCEPT
        !.fills = @ \cup
            {[column |-> column, from_row |-> from_row, value |-> value]},
        !.fill_count = @ + 1]

\* fork(ranges): one empty sub-sink per range, with the room of the parent.
CsFork(sink, ranges) == [i \in DOMAIN ranges |-> CsNew(sink.usable)]

\* merge(sub_cs): the contents of one sub-sink folded back into the parent.
CsMergeOne(sink, sub) ==
    [sink EXCEPT !.cells = @ \cup sub.cells,
                 !.copies = @ \cup sub.copies,
                 !.copy_count = @ + sub.copy_count,
                 !.fills = @ \cup sub.fills,
                 !.fill_count = @ + sub.fill_count,
                 !.entered = @ + sub.entered,
                 !.exited = @ + sub.exited]

RECURSIVE CsMergeFrom(_, _, _)
CsMergeFrom(sink, sub_cs, i) ==
    IF i > Len(sub_cs) THEN sink
    ELSE CsMergeFrom(CsMergeOne(sink, sub_cs[i]), sub_cs, i + 1)

CsMerge(sink, sub_cs) == CsMergeFrom(sink, sub_cs, 1)

----------------------------------------------------------------------------
(* The region commit view (SingleChipLayouterRegion) *)

\* A view is the sink it writes to, the constants it has buffered and the
\* result of the definition so far; regs is layouter.regions.
SingleChipLayouterRegionNew(sink) ==
    [cs |-> sink, constants |-> <<>>, result |-> "Ok"]

RegionRow(regs, region_index, offset) == regs[region_index + 1] + offset

enable_selector(view, regs, region_index, selector, offset) ==
    LET row == RegionRow(regs, region_index, offset)
    IN  IF CsAccepts(view.cs, row)
        THEN [view EXCEPT !.cs = CsAssign(@, selector, row, 1, ByRegion(region_index))]
        ELSE [view EXCEPT !.result = "SinkError"]

\* Mutant of assign_advice: the local offset is sent to the sink as the row.
assign_advice_local_row(view, regs, region_index, column, offset, value) ==
    IF CsAccepts(view.cs, offset)
    THEN [view EXCEPT !.cs = CsAssign(@, column, offset, value, ByRegion(region_index))]
    ELSE [view EXCEPT !.result = "SinkError"]

assign_advice(view, regs, region_index, column, offset, value) ==
    LET row == RegionRow(regs, region_index, offset)
    IN  IF CsAccepts(view.cs, row)
        THEN [view EXCEPT !.cs = CsAssign(@, column, row, value, ByRegion(region_index))]
        ELSE [view EXCEPT !.result = "SinkError"]

assign_fixed(view, regs, region_index, column, offset, value) ==
    LET row == RegionRow(regs, region_index, offset)
    IN  IF CsAccepts(view.cs, row)
        THEN [view EXCEPT !.cs = CsAssign(@, column, row, value, ByRegion(region_index))]
        ELSE [view EXCEPT !.result = "SinkError"]

constrain_constant(view, cell, constant) ==
    [view EXCEPT !.constants = Append(@, <<constant, cell>>)]

assign_advice_from_constant(view, regs, region_index, column, offset, constant) ==
    LET advice == assign_advice(view, regs, region_index, column, offset, constant)
    IN  IF advice.result # "Ok" THEN advice
        ELSE constrain_constant(advice, Cell(region_index, offset, column), constant)

\* query_instance, the advice write, then the copy between the advice cell
\* and the instance cell.
assign_advice_from_instance(view, regs, region_index, instance, row, advice, offset) ==
    IF ~CsAccepts(view.cs, row)
    THEN [view EXCEPT !.result = "SinkError"]
    ELSE LET assigned == assign_advice(view, regs, region_index, advice, offset, 0)
             cell == Cell(region_index, offset, advice)
         IN  IF assigned.result # "Ok" THEN assigned
             ELSE [assigned EXCEPT !.cs =
                    CsCopy(@, cell.column,
                           RegionRow(regs, cell.region_index, cell.row_offset),
                           instance, row, ByRegion(region_index))]

\* Mutant of constrain_equal: both cells are resolved through the start of
\* the current region.
constrain_equal_current_start(view, regs, region_index, left, right) ==
    [view EXCEPT !.cs =
        CsCopy(@, left.column, RegionRow(regs, region_index, left.row_offset),
               right.column, RegionRow(regs, region_index, right.row_offset),
               ByRegion(region_index))]

constrain_equal(view, regs, region_index, left, right) ==
    [view EXCEPT !.cs =
        CsCopy(@, left.column, RegionRow(regs, left.region_index, left.row_offset),
               right.column, RegionRow(regs, right.region_index, right.row_offset),
               ByRegion(region_index))]

\* One operation of the definition, run against the commit view.
ExecOp(view, regs, region_index, o) ==
    CASE o.op = "enable_selector" ->
            enable_selector(view, regs, region_index, o.column, o.offset)
      [] o.op = "assign_advice" ->
            assign_advice(view, regs, region_index, o.column, o.offset, 0)
      [] o.op = "assign_fixed" ->
            assign_fixed(view, regs, region_index, o.column, o.offset, 0)
      [] o.op = "assign_advice_from_constant" ->
            assign_advice_from_constant(view, regs, region_index, o.column,
                                        o.offset, o.constant)
      [] o.op = "constrain_constant" ->
            constrain_constant(view, Cell(region_index, o.offset, o.column),
                               o.constant)
      [] o.op = "assign_advice_from_instance" ->
            assign_advice_from_instance(view, regs, region_index, o.instance,
                                        o.row, o.column, o.offset)
      [] o.op = "constrain_equal" ->
            constrain_equal(view, regs, region_index,
                            Cell(region_index, o.offset, o.column),
                            Cell(o.right_region, o.right_offset, o.column))
      [] o.op = "return_err" -> [view EXCEPT !.result = "DefinitionError"]

\* The definition run against the commit view: it stops at the first error
\* (every call of the definition is followed by `?`).
RECURSIVE RunAssignment(_, _, _, _, _)
RunAssignment(view, regs, region_index, assignment, i) ==
    IF i > Len(assignment) \/ view.result # "Ok" THEN view
    ELSE RunAssignment(ExecOp(view, regs, region_index, assignment[i]),
                       regs, region_index, assignment, i + 1)

----------------------------------------------------------------------------
(* The layouter (SingleChipLayouter) *)

\* columns.get(column).cloned().unwrap_or(0)
ColumnStart(cols, column) == IF column \in DOMAIN cols THEN cols[column] ELSE 0

\* columns.insert(column, row)
ColumnInsert(cols, column, row) ==
    [c \in DOMAIN cols \cup {column} |-> IF c = column THEN row ELSE cols[c]]

\* Mutant of RegionStart: every region is put at row 0.
RegionStartZero(cols, shape_columns) == 0

\* Mutant of RegionStart: the smallest start of the touched columns.
RegionStartMin(cols, shape_columns) ==
    IF shape_columns = {} THEN 0
    ELSE LET starts == {ColumnStart(cols, c) : c \in shape_columns}
         IN  CHOOSE m \in starts : \A x \in starts : m <= x

\* The earliest row at which none of the touched columns is in use.
RegionStart(cols, shape_columns) ==
    IF shape_columns = {} THEN 0
    ELSE LET starts == {ColumnStart(cols, c) : c \in shape_columns}
         IN  CHOOSE m \in starts : \A x \in starts : m >= x

\* Mutant of UpdateColumns: records the last row used, not the first free one.
UpdateColumnsLastRow(cols, shape_columns, end) ==
    [c \in DOMAIN cols \cup shape_columns |->
        IF c \in shape_columns THEN end - 1 ELSE cols[c]]

\* Update column usage information.
UpdateColumns(cols, shape_columns, end) ==
    [c \in DOMAIN cols \cup shape_columns |->
        IF c \in shape_columns THEN end ELSE cols[c]]

\* Mutant of AssignConstantsLoop: the copy targets the cell's local offset,
\* without the start of the cell's region.
RECURSIVE AssignConstantsLoopLocalRow(_, _, _, _, _, _, _)
AssignConstantsLoopLocalRow(constants_column, regs, cols, sink, constants_to_assign, i, next_constant_row) ==
    IF i > Len(constants_to_assign)
    THEN [columns |-> ColumnInsert(cols, constants_column, next_constant_row),
          cs |-> sink, result |-> "Ok"]
    ELSE LET constant == constants_to_assign[i][1]
             advice == constants_to_assign[i][2]
             written == CsAssign(sink, constants_column, next_constant_row,
                                 constant, ByConstant)
             copied == CsCopy(written, constants_column, next_constant_row,
                              advice.column, advice.row_offset, ByConstant)
         IN  AssignConstantsLoopLocalRow(constants_column, regs, cols, copied,
                                         constants_to_assign, i + 1,
                                         next_constant_row + 1)

\* Mutant of AssignConstantsLoop: next_constant_row is a local copy of the
\* counter, never stored back into columns.
RECURSIVE AssignConstantsLoopLocalCounter(_, _, _, _, _, _, _)
AssignConstantsLoopLocalCounter(constants_column, regs, cols, sink, constants_to_assign, i, next_constant_row) ==
    IF i > Len(constants_to_assign)
    THEN [columns |-> ColumnInsert(cols, constants_column,
                                   ColumnStart(cols, constants_column)),
          cs |-> sink, result |-> "Ok"]
    ELSE LET constant == constants_to_assign[i][1]
             advice == constants_to_assign[i][2]
             written == CsAssign(sink, constants_column, next_constant_row,
                                 constant, ByConstant)
             copied == CsCopy(written, constants_column, next_constant_row,
                              advice.column,
                              regs[advice.region_index + 1] + advice.row_offset,
                              ByConstant)
         IN  AssignConstantsLoopLocalCounter(constants_column, regs, cols, copied,
                                             constants_to_assign, i + 1,
                                             next_constant_row + 1)

\* The loop over constants_to_assign: one fixed write, one copy and one
\* increment of next_constant_row per entry, in order.
RECURSIVE AssignConstantsLoop(_, _, _, _, _, _, _)
AssignConstantsLoop(constants_column, regs, cols, sink, constants_to_assign, i, next_constant_row) ==
    IF i > Len(constants_to_assign)
    THEN [columns |-> ColumnInsert(cols, constants_column, next_constant_row),
          cs |-> sink, result |-> "Ok"]
    ELSE IF ~CsAccepts(sink, next_constant_row)
    THEN [columns |-> ColumnInsert(cols, constants_column, next_constant_row),
          cs |-> sink, result |-> "SinkError"]
    ELSE LET constant == constants_to_assign[i][1]
             advice == constants_to_assign[i][2]
             written == CsAssign(sink, constants_column, next_constant_row,
                                 constant, ByConstant)
             copied == CsCopy(written, constants_column, next_constant_row,
                              advice.column,
                              regs[advice.region_index + 1] + advice.row_offset,
                              ByConstant)
         IN  AssignConstantsLoop(constants_column, regs, cols, copied,
                                 constants_to_assign, i + 1, next_constant_row + 1)

\* Mutant of AssignConstants: pending constants are dropped silently when no
\* constants column is configured.
AssignConstantsDropped(consts, regs, cols, sink, constants_to_assign) ==
    IF consts = <<>>
    THEN [columns |-> cols, cs |-> sink, result |-> "Ok"]
    ELSE AssignConstantsLoop(consts[1], regs, cols, sink, constants_to_assign, 1,
                             ColumnStart(cols, consts[1]))

\* Mutant of AssignConstants: the constants are written from row 0 of the
\* constants column, whatever the regions occupy in it.
AssignConstantsFromRowZero(consts, regs, cols, sink, constants_to_assign) ==
    IF consts = <<>>
    THEN [columns |-> cols, cs |-> sink,
          result |-> IF constants_to_assign # <<>>
                     THEN "NotEnoughColumnsForConstants" ELSE "Ok"]
    ELSE AssignConstantsLoop(consts[1], regs, cols, sink, constants_to_assign, 1, 0)

\* Assign constants, in order, in the first `constants` column.
AssignConstants(consts, regs, cols, sink, constants_to_assign) ==
    IF consts = <<>>
    THEN [columns |-> cols, cs |-> sink,
          result |-> IF constants_to_assign # <<>>
                     THEN "NotEnoughColumnsForConstants" ELSE "Ok"]
    ELSE LET constants_column == consts[1]
         IN  AssignConstantsLoop(constants_column, regs, cols, sink,
                                 constants_to_assign, 1,
                                 ColumnStart(cols, constants_column))

\* Mutant of assign_region: an error of the commit pass undoes the placement
\* of the region and what the region wrote.
assign_region_rolled_back(consts, regs, cols, sink, assignment) ==
    LET region_index == Len(regs)
        shape_columns == ShapeColumns(assignment)
        row_count == ShapeRowCount(assignment)
        region_start == RegionStart(cols, shape_columns)
        regs1 == Append(regs, region_start)
        cols1 == UpdateColumns(cols, shape_columns, region_start + row_count)
        view == RunAssignment(SingleChipLayouterRegionNew(CsEnterRegion(sink)),
                              regs1, region_index, assignment, 1)
    IN  IF Probe(assignment) # "Ok"
        THEN [regions |-> regs, columns |-> cols, cs |-> sink,
              result |-> Probe(assignment), constants_to_assign |-> <<>>,
              failed |-> "probe"]
        ELSE IF view.result # "Ok"
        THEN [regions |-> regs, columns |-> cols, cs |-> sink,
              result |-> view.result, constants_to_assign |-> <<>>,
              failed |-> "commit"]
        ELSE LET resolved == AssignConstants(consts, regs1, cols1,
                                             CsExitRegion(view.cs), view.constants)
             IN  [regions |-> regs1, columns |-> resolved.columns,
                  cs |-> resolved.cs, result |-> resolved.result,
                  constants_to_assign |-> view.constants,
                  failed |-> IF resolved.result # "Ok" THEN "constants" ELSE "none"]

\* Mutant of assign_region: the result of the probe pass is not looked at, so
\* a definition that returns an error is placed and run a second time.
assign_region_probe_ignored(consts, regs, cols, sink, assignment) ==
    LET region_index == Len(regs)
        shape_columns == ShapeColumns(assignment)
        row_count == ShapeRowCount(assignment)
        region_start == RegionStart(cols, shape_columns)
        regs1 == Append(regs, region_start)
        cols1 == UpdateColumns(cols, shape_columns, region_start + row_count)
        view == RunAssignment(SingleChipLayouterRegionNew(CsEnterRegion(sink)),
                              regs1, region_index, assignment, 1)
    IN  IF view.result # "Ok"
        THEN [regions |-> regs1, columns |-> cols1, cs |-> view.cs,
              result |-> view.result, constants_to_assign |-> <<>>,
              failed |-> "commit"]
        ELSE LET resolved == AssignConstants(consts, regs1, cols1,
                                             CsExitRegion(view.cs), view.constants)
             IN  [regions |-> regs1, columns |-> resolved.columns,
                  cs |-> resolved.cs, result |-> resolved.result,
                  constants_to_assign |-> view.constants,
                  failed |-> IF resolved.result # "Ok" THEN "constants" ELSE "none"]

\* assign_region on a layouter in state (consts, regs, cols, sink).  `failed`
\* names the step whose `?` returned the error: the probe pass, the commit
\* pass or the assignment of the constants.
assign_region(consts, regs, cols, sink, assignment) ==
    LET region_index == Len(regs)
        shape_columns == ShapeColumns(assignment)
        row_count == ShapeRowCount(assignment)
        region_start == RegionStart(cols, shape_columns)
        regs1 == Append(regs, region_start)
        cols1 == UpdateColumns(cols, shape_columns, region_start + row_count)
        view == RunAssignment(SingleChipLayouterRegionNew(CsEnterRegion(sink)),
                              regs1, region_index, assignment, 1)
    IN  IF Probe(assignment) # "Ok"
        THEN [regions |-> regs, columns |-> cols, cs |-> sink,
              result |-> Probe(assignment), constants_to_assign |-> <<>>,
              failed |-> "probe"]
        ELSE IF view.result # "Ok"
        THEN [regions |-> regs1, columns |-> cols1, cs |-> view.cs,
              result |-> view.result, constants_to_assign |-> <<>>,
              failed |-> "commit"]
        ELSE LET resolved == AssignConstants(consts, regs1, cols1,
                                             CsExitRegion(view.cs), view.constants)
             IN  [regions |-> regs1, columns |-> resolved.columns,
                  cs |-> resolved.cs, result |-> resolved.result,
                  constants_to_assign |-> view.constants,
                  failed |-> IF resolved.result # "Ok" THEN "constants" ELSE "none"]

\* Mutant of PlaceRegions: the start of a sub-region is inserted at the front
\* of regions instead of being pushed.
RECURSIVE PlaceRegionsAtFront(_, _, _, _, _)
PlaceRegionsAtFront(regs, cols, ranges, assignments, i) ==
    IF i > Len(assignments)
    THEN [regions |-> regs, columns |-> cols, ranges |-> ranges, result |-> "Ok"]
    ELSE IF Probe(assignments[i]) # "Ok"
    THEN [regions |-> regs, columns |-> cols, ranges |-> ranges,
          result |-> Probe(assignments[i])]
    ELSE LET shape_columns == ShapeColumns(assignments[i])
             row_count == ShapeRowCount(assignments[i])
             region_start == RegionStart(cols, shape_columns)
         IN  PlaceRegionsAtFront(<<region_start>> \o regs,
                          UpdateColumns(cols, shape_columns, region_start + row_count),
                          Append(ranges, <<region_start, region_start + row_count>>),
                          assignments, i + 1)

\* Phase A of assign_regions: the shape and the placement of every
\* sub-region, in submission order, from assignment i on, up to the first
\* definition that returns an error to the probe.
RECURSIVE PlaceRegions(_, _, _, _, _)
PlaceRegions(regs, cols, ranges, assignments, i) ==
    IF i > Len(assignments)
    THEN [regions |-> regs, columns |-> cols, ranges |-> ranges, result |-> "Ok"]
    ELSE IF Probe(assignments[i]) # "Ok"
    THEN [regions |-> regs, columns |-> cols, ranges |-> ranges,
          result |-> Probe(assignments[i])]
    ELSE LET shape_columns == ShapeColumns(assignments[i])
             row_count == ShapeRowCount(assignments[i])
             region_start == RegionStart(cols, shape_columns)
         IN  PlaceRegions(Append(regs, region_start),
                          UpdateColumns(cols, shape_columns, region_start + row_count),
                          Append(ranges, <<region_start, region_start + row_count>>),
                          assignments, i + 1)

\* SingleChipLayouter::fork: every sub-layouter owns clones of the fields.
Fork(sub_cs, regs, cols, tables) ==
    [i \in DOMAIN sub_cs |->
        [cs |-> sub_cs[i], regions |-> regs, columns |-> cols,
         table_columns |-> tables]]

\* Mutant of CollectResults: the errors of the workers are ignored.
CollectResultsIgnored(results, i) == "Ok"

\* The first error among the workers' results, in submission order.
RECURSIVE CollectResults(_, _)
CollectResults(results, i) ==
    IF i > Len(results) THEN "Ok"
    ELSE IF results[i] # "Ok" THEN results[i]
    ELSE CollectResults(results, i + 1)

\* The workers' constants, flattened in the order the handles were pushed.
RECURSIVE MergeConstants(_, _)
MergeConstants(worker_constants, i) ==
    IF i > Len(worker_constants) THEN <<>>
    ELSE worker_constants[i] \o MergeConstants(worker_constants, i + 1)

\* The same definitions handed one at a time to assign_region, each call
\* made only if the one before it returned Ok.
RECURSIVE SequentialRegions(_, _, _, _, _, _)
SequentialRegions(consts, regs, cols, sink, assignments, i) ==
    IF i > Len(assignments)
    THEN [regions |-> regs, columns |-> cols, cs |-> sink, result |-> "Ok"]
    ELSE LET r == assign_region(consts, regs, cols, sink, assignments[i])
         IN  IF r.result # "Ok"
             THEN [regions |-> r.regions, columns |-> r.columns, cs |-> r.cs,
                   result |-> r.result]
             ELSE SequentialRegions(consts, r.regions, r.columns, r.cs,
                                    assignments, i + 1)

----------------------------------------------------------------------------
(* The table commit view (SimpleTableLayouter) *)

\* DefaultTableValue: None until row 0 of the column has been assigned.
None == <<>>
Some(v) == <<v>>

\* default_and_assigned.entry(column).or_default()
EntryOrDefault(default_and_assigned, column) ==
    IF column \in DOMAIN default_and_assigned THEN default_and_assigned
    ELSE [c \in DOMAIN default_and_assigned \cup {column} |->
            IF c = column THEN [default |-> None, assigned |-> <<>>]
            ELSE default_and_assigned[c]]

\* entry.1.resize(offset + 1, false) when too short, then entry.1[offset] = true
MarkAssigned(assigned, offset) ==
    [i \in 1 .. Max(Len(assigned), offset + 1) |->
        IF i = offset + 1 THEN TRUE
        ELSE IF i <= Len(assigned) THEN assigned[i] ELSE FALSE]

\* Mutant of assign_cell: no check of the column against used_columns.
assign_cell_unchecked(used_columns, default_and_assigned, sink, column, offset, value, by) ==
    LET entries == EntryOrDefault(default_and_assigned, column)
        entry == entries[column]
        written == CsAssign(sink, column, offset, value, by)
    IN  IF entry.default # None /\ offset = 0
        THEN [default_and_assigned |-> entries, cs |-> written,
              result |-> "Synthesis"]
        ELSE [default_and_assigned |->
                [entries EXCEPT ![column] =
                    [default |-> IF offset = 0 THEN Some(value) ELSE entry.default,
                     assigned |-> MarkAssigned(entry.assigned, offset)]],
              cs |-> written,
              result |-> "Ok"]

\* Mutant of assign_cell: the first value assigned to a column, at whatever
\* row, becomes its default.
assign_cell_first_value(used_columns, default_and_assigned, sink, column, offset, value, by) ==
    IF column \in used_columns
    THEN [default_and_assigned |-> default_and_assigned, cs |-> sink,
          result |-> "Synthesis"]
    ELSE LET entries == EntryOrDefault(default_and_assigned, column)
             entry == entries[column]
             written == CsAssign(sink, column, offset, value, by)
         IN  [default_and_assigned |->
                [entries EXCEPT ![column] =
                    [default |-> IF entry.default = None THEN Some(value)
                                 ELSE entry.default,
                     assigned |-> MarkAssigned(entry.assigned, offset)]],
              cs |-> written,
              result |-> "Ok"]

\* Mutant of assign_cell: a second value at row 0 replaces the default and is
\* accepted.
assign_cell_last_value(used_columns, default_and_assigned, sink, column, offset, value, by) ==
    IF column \in used_columns
    THEN [default_and_assigned |-> default_and_assigned, cs |-> sink,
          result |-> "Synthesis"]
    ELSE LET entries == EntryOrDefault(default_and_assigned, column)
             entry == entries[column]
             written == CsAssign(sink, column, offset, value, by)
         IN  [default_and_assigned |->
                [entries EXCEPT ![column] =
                    [default |-> IF offset = 0 THEN Some(value) ELSE entry.default,
                     assigned |-> MarkAssigned(entry.assigned, offset)]],
              cs |-> written,
              result |-> "Ok"]

\* SimpleTableLayouter::assign_cell on the view (used_columns,
\* default_and_assigned) writing to sink; `by` tags the writes of this table.
assign_cell(used_columns, default_and_assigned, sink, column, offset, value, by) ==
    IF column \in used_columns
    THEN [default_and_assigned |-> default_and_assigned, cs |-> sink,
          result |-> "Synthesis"]
    ELSE LET entries == EntryOrDefault(default_and_assigned, column)
             entry == entries[column]
         IN  IF ~CsAccepts(sink, offset)
             THEN [default_and_assigned |-> entries, cs |-> sink,
                   result |-> "SinkError"]
             ELSE LET written == CsAssign(sink, column, offset, value, by)
                  IN  IF entry.default # None /\ offset = 0
                      THEN [default_and_assigned |-> entries, cs |-> written,
                            result |-> "Synthesis"]
                      ELSE [default_and_assigned |->
                                [entries EXCEPT ![column] =
                                    [default |-> IF offset = 0 THEN Some(value)
                                                 ELSE entry.default,
                                     assigned |-> MarkAssigned(entry.assigned, offset)]],
                            cs |-> written,
                            result |-> "Ok"]

\* The length of one column if all its cells up to that length are assigned.
AssignedLen(assigned) ==
    IF \A i \in DOMAIN assigned : assigned[i] THEN Some(Len(assigned)) ELSE None

\* Mutant of FirstUnused: the lengths are compared, the gaps are not looked at.
FirstUnusedLengthOnly(default_and_assigned) ==
    LET lens == {Some(Len(default_and_assigned[c].assigned)) :
                    c \in DOMAIN default_and_assigned}
    IN  IF Cardinality(lens) = 1
        THEN CHOOSE len \in lens : TRUE
        ELSE None

\* Mutant of FirstUnused: a table that touched no column has length 0.
FirstUnusedEmptyOk(default_and_assigned) ==
    LET lens == {AssignedLen(default_and_assigned[c].assigned) :
                    c \in DOMAIN default_and_assigned}
    IN  IF lens = {} THEN Some(0)
        ELSE IF Cardinality(lens) = 1 /\ None \notin lens
        THEN CHOOSE len \in lens : TRUE
        ELSE None

\* first_unused: Some(len) when every touched column has the same fully
\* assigned length len, None otherwise and when no column was touched.
FirstUnused(default_and_assigned) ==
    LET lens == {AssignedLen(default_and_assigned[c].assigned) :
                    c \in DOMAIN default_and_assigned}
    IN  IF Cardinality(lens) = 1 /\ None \notin lens
        THEN CHOOSE len \in lens : TRUE
        ELSE None

\* fill_from_row for every column of the set, with the column's default.
RECURSIVE FillColumns(_, _, _, _)
FillColumns(sink, default_and_assigned, cols, first_unused) ==
    IF cols = {} THEN sink
    ELSE LET col == CHOOSE c \in cols : TRUE
         IN  FillColumns(CsFillFromRow(sink, col, first_unused,
                                       default_and_assigned[col].default[1]),
                         default_and_assigned, cols \ {col}, first_unused)

----------------------------------------------------------------------------
(* Actions *)

Idle == [phase |-> "idle", workers |-> <<>>]

NoTable == [phase |-> "idle"]

\* default_val.unwrap() has panicked: the program makes no further call.
Panicked == [phase |-> "panicked"]

ConstantsChoices == {<<>>, <<Fixed(0), Fixed(1)>>}

Init ==
    /\ constants \in ConstantsChoices
    /\ regions = <<>>
    /\ columns = <<>>
    /\ table_columns = {}
    /\ cs = CsNew(LargeSink)
    /\ shapes = <<>>
    /\ batch = Idle
    /\ table = NoTable
    /\ last = [op |-> "new"]
    /\ calls = 0

\* The cells the regions placed so far have assigned.
Written(regs, sink) ==
    {<<x.by[2], x.column, x.row - regs[x.by[2] + 1]>> :
        x \in {y \in sink.cells : y.by[1] = "region"}}

AssignRegion ==
    /\ batch.phase = "idle"
    /\ calls < MaxCalls
    /\ \E assignment \in Assignments :
        /\ CellsReturned(assignment, Len(regions), Written(regions, cs))
        /\ LET r == assign_region(constants, regions, columns, cs, assignment)
           IN  /\ regions' = r.regions
               /\ columns' = r.columns
               /\ cs' = r.cs
               /\ shapes' = IF r.failed = "probe" THEN shapes
                             ELSE Append(shapes, Shape(assignment))
               /\ last' = [op |-> "assign_region", result |-> r.result,
                           constants_to_assign |-> r.constants_to_assign,
                           assignment |-> assignment, failed |-> r.failed]
    /\ calls' = calls + 1
    /\ table.phase = "idle"
    /\ UNCHANGED <<constants, table_columns, batch, table>>

RECURSIVE TotalOps(_, _)
TotalOps(assignments, i) ==
    IF i > Len(assignments) THEN 0
    ELSE Len(assignments[i]) + TotalOps(assignments, i + 1)

\* The batches of n region definitions.
Batches(n) == {b \in [1 .. n -> Assignments] : TotalOps(b, 1) <= MaxBatchOps}

\* assign_regions up to the spawning of the workers: Phase A, the fork of the
\* sink and of the layouter, one worker per sub-region.
AssignRegionsBegin ==
    /\ batch.phase = "idle"
    /\ \E n \in 1 .. (MaxCalls - calls) : \E assignments \in Batches(n) :
        /\ \A i \in 1 .. n :
            CellsReturned(assignments[i], Len(regions) + i - 1, Written(regions, cs))
        /\ LET region_index == Len(regions)
               placed == PlaceRegions(regions, columns, <<>>, assignments, 1)
               sub_cs == CsFork(cs, placed.ranges)
               sub_layouters == Fork(sub_cs, placed.regions, placed.columns,
                                     table_columns)
           IN  /\ regions' = placed.regions
               /\ columns' = placed.columns
               /\ shapes' = shapes \o [i \in 1 .. Len(placed.ranges) |->
                                            Shape(assignments[i])]
               /\ calls' = calls + n
               /\ IF placed.result # "Ok"
                  THEN /\ batch' = batch
                       /\ last' = [op |-> "assign_regions",
                                   result |-> placed.result,
                                   failed |-> "probe"]
                  ELSE /\ batch' = [phase |-> "running",
                                    region_index |-> region_index,
                                    ranges |-> placed.ranges,
                                    workers |-> [i \in 1 .. n |->
                                       [assignment |-> assignments[i],
                                        sub_layouter |-> sub_layouters[i],
                                        region |-> SingleChipLayouterRegionNew(sub_cs[i]),
                                        next |-> 1,
                                        at |-> "spawned"]],
                                    completed |-> <<>>,
                                    sequential |-> SequentialRegions(constants, regions,
                                                       columns, cs, assignments, 1)]
                       /\ last' = [op |-> "assign_regions", result |-> "running"]
    /\ table.phase = "idle"
    /\ UNCHANGED <<constants, table_columns, cs, table>>

\* A worker enters its region on its own sub-sink.
WorkerEnter(i) ==
    /\ batch.phase = "running"
    /\ batch.workers[i].at = "spawned"
    /\ batch' = [batch EXCEPT !.workers[i].at = "running",
                              !.workers[i].region.cs = CsEnterRegion(@)]
    /\ UNCHANGED <<constants, regions, columns, table_columns, cs, shapes,
                   table, last, calls>>

\* Mutant of WorkerRun: the sub-sink of the worker is the parent sink itself.
WorkerRunOnParent(i) ==
    /\ batch.phase = "running"
    /\ batch.workers[i].at = "running"
    /\ batch.workers[i].next <= Len(batch.workers[i].assignment)
    /\ batch.workers[i].region.result = "Ok"
    /\ LET w == batch.workers[i]
           region == ExecOp(w.region, w.sub_layouter.regions,
                            batch.region_index + i - 1, w.assignment[w.next])
       IN  /\ batch' = [batch EXCEPT !.workers[i].region = region,
                                     !.workers[i].next = @ + 1]
           /\ cs' = [cs EXCEPT !.cells = @ \cup region.cs.cells,
                               !.copies = @ \cup region.cs.copies]
    /\ UNCHANGED <<constants, regions, columns, table_columns, shapes,
                   table, last, calls>>

\* A worker runs the next operation of its definition against its commit
\* view, which resolves rows through the sub-layouter's own regions.
WorkerRun(i) ==
    /\ batch.phase = "running"
    /\ batch.workers[i].at = "running"
    /\ batch.workers[i].next <= Len(batch.workers[i].assignment)
    /\ batch.workers[i].region.result = "Ok"
    /\ LET w == batch.workers[i]
       IN  batch' = [batch EXCEPT
                !.workers[i].region =
                    ExecOp(w.region, w.sub_layouter.regions,
                           batch.region_index + i - 1, w.assignment[w.next]),
                !.workers[i].next = @ + 1]
    /\ UNCHANGED <<constants, regions, columns, table_columns, cs, shapes,
                   table, last, calls>>

\* A worker's definition has returned: it leaves the region and hands back
\* (result, constants).
WorkerExit(i) ==
    /\ batch.phase = "running"
    /\ batch.workers[i].at = "running"
    /\ \/ batch.workers[i].next > Len(batch.workers[i].assignment)
       \/ batch.workers[i].region.result # "Ok"
    /\ batch' = [batch EXCEPT !.workers[i].at = "exited",
                              !.workers[i].region.cs = CsExitRegion(@),
                              !.completed = Append(@, i)]
    /\ UNCHANGED <<constants, regions, columns, table_columns, cs, shapes,
                   table, last, calls>>

\* assign_regions after the join of every worker: merge of the sub-sinks,
\* the first error if any, then the batch's constants.
AssignRegionsEnd ==
    /\ batch.phase = "running"
    /\ \A i \in DOMAIN batch.workers : batch.workers[i].at = "exited"
    /\ LET ret == batch.workers
           merged == CsMerge(cs, [i \in DOMAIN ret |-> ret[i].region.cs])
           results == CollectResults([i \in DOMAIN ret |-> ret[i].region.result], 1)
           constants_to_assign ==
                MergeConstants([i \in DOMAIN ret |-> ret[i].region.constants], 1)
           resolved == AssignConstants(constants, regions, columns, merged,
                                       constants_to_assign)
       IN  IF results # "Ok"
           THEN /\ cs' = merged
                /\ columns' = columns
                /\ last' = [op |-> "assign_regions", result |-> results,
                            constants_to_assign |-> <<>>,
                            region_index |-> batch.region_index,
                            completed |-> batch.completed,
                            sequential |-> batch.sequential]
           ELSE /\ cs' = resolved.cs
                /\ columns' = resolved.columns
                /\ last' = [op |-> "assign_regions", result |-> resolved.result,
                            constants_to_assign |-> constants_to_assign,
                            region_index |-> batch.region_index,
                            completed |-> batch.completed,
                            sequential |-> batch.sequential]
    /\ batch' = Idle
    /\ UNCHANGED <<constants, regions, table_columns, shapes, table, calls>>

\* One assign_cell call of a table definition.
TableOps == [column : TableColumns, offset : Offsets, value : Values]

\* assign_table up to the call of the table definition: enter_region and a
\* fresh SimpleTableLayouter borrowing the registry as used_columns.
AssignTableBegin ==
    /\ batch.phase = "idle"
    /\ table.phase = "idle"
    /\ calls < MaxCalls
    /\ cs' = CsEnterRegion(cs)
    /\ table' = [phase |-> "assigning",
                 used_columns |-> table_columns,
                 default_and_assigned |-> <<>>,
                 by |-> ByTable(calls),
                 cell |-> None,
                 result |-> "Ok",
                 cells |-> 0]
    /\ last' = [op |-> "assign_table", result |-> "running"]
    /\ calls' = calls + 1
    /\ UNCHANGED <<constants, regions, columns, table_columns, shapes, batch>>

\* The table definition calls assign_cell; table.result keeps what the call
\* returned, table.cell what it was given.
AssignCell ==
    /\ table.phase = "assigning"
    /\ table.cells < MaxTableOps
    /\ \E o \in TableOps :
        LET r == assign_cell(table.used_columns, table.default_and_assigned, cs,
                             o.column, o.offset, o.value, table.by)
        IN  /\ cs' = r.cs
            /\ table' = [table EXCEPT
                    !.default_and_assigned = r.default_and_assigned,
                    !.cell = Some(o),
                    !.result = r.result,
                    !.cells = @ + 1]
    /\ UNCHANGED <<constants, regions, columns, table_columns, shapes, batch,
                   last, calls>>

\* Mutant of AssignTableErr: the columns touched so far are registered
\* although the call fails.
AssignTableErrRegistered ==
    /\ table.phase = "assigning"
    /\ table.result # "Ok"
    /\ last' = [op |-> "assign_table", result |-> table.result,
                assignment |-> "Err", by |-> table.by, cell |-> table.cell]
    /\ table' = NoTable
    /\ table_columns' = table_columns \cup DOMAIN table.default_and_assigned
    /\ UNCHANGED <<constants, regions, columns, cs, shapes, batch, calls>>

\* The table definition propagates the error of its last assign_cell, and
\* assign_table returns it.
AssignTableErr ==
    /\ table.phase = "assigning"
    /\ table.result # "Ok"
    /\ last' = [op |-> "assign_table", result |-> table.result,
                assignment |-> "Err", by |-> table.by, cell |-> table.cell]
    /\ table' = NoTable
    /\ UNCHANGED <<constants, regions, columns, table_columns, cs, shapes, batch,
                   calls>>

\* The table definition returns Ok: exit_region, the length check, the
\* registration of the columns and the fill with the default values.  When a
\* default value is None the unwrap panics, after the fills of the columns
\* the map happened to yield before it.
AssignTableEnd ==
    /\ table.phase = "assigning"
    /\ LET default_and_assigned == table.default_and_assigned
           touched == DOMAIN default_and_assigned
           exited == CsExitRegion(cs)
           first_unused == FirstUnused(default_and_assigned)
           with_default == {c \in touched : default_and_assigned[c].default # None}
       IN  IF first_unused = None
           THEN /\ cs' = exited
                /\ table_columns' = table_columns
                /\ last' = [op |-> "assign_table", result |-> "Synthesis",
                            assignment |-> "Ok", by |-> table.by]
           ELSE /\ table_columns' = table_columns \cup touched
                /\ IF with_default = touched
                   THEN /\ cs' = FillColumns(exited, default_and_assigned, touched,
                                             first_unused[1])
                        /\ last' = [op |-> "assign_table", result |-> "Ok",
                                    assignment |-> "Ok", by |-> table.by]
                   ELSE /\ \E filled \in SUBSET with_default :
                            cs' = FillColumns(exited, default_and_assigned, filled,
                                              first_unused[1])
                        /\ last' = [op |-> "assign_table", result |-> "Panic",
                                    assignment |-> "Ok", by |-> table.by]
    /\ table' = IF last'.result = "Panic" THEN Panicked ELSE NoTable
    /\ UNCHANGED <<constants, regions, columns, shapes, batch, calls>>

NextTable ==
    \/ AssignTableBegin
    \/ AssignCell
    \/ AssignTableErr
    \/ AssignTableEnd

SpecTable == Init /\ [][NextTable]_vars

\* The sink a run out of rows is observed with: one usable row.
SmallSink == 1

ByInstance == <<"instance", 0>>

\* constrain_instance on a cell that a region placed so far has returned.
ConstrainInstance ==
    /\ batch.phase = "idle"
    /\ table.phase = "idle"
    /\ calls < MaxCalls
    /\ \E region_index \in 0 .. (Len(regions) - 1), column \in AdviceColumns,
          offset \in Offsets, row \in Offsets :
        LET cell == Cell(region_index, offset, column)
        IN  cs' = CsCopy(cs, cell.column,
                         regions[cell.region_index + 1] + cell.row_offset,
                         Instance(0), row, ByInstance)
    /\ last' = [op |-> "constrain_instance", result |-> "Ok"]
    /\ calls' = calls + 1
    /\ UNCHANGED <<constants, regions, columns, table_columns, shapes, batch, table>>

Next ==
    \/ AssignRegion
    \/ AssignRegionsBegin
    \/ \E i \in 1 .. MaxCalls : i \in DOMAIN batch.workers /\ WorkerEnter(i)
    \/ \E i \in 1 .. MaxCalls : i \in DOMAIN batch.workers /\ WorkerRun(i)
    \/ \E i \in 1 .. MaxCalls : i \in DOMAIN batch.workers /\ WorkerExit(i)
    \/ AssignRegionsEnd

Spec == Init /\ [][Next]_vars

\* The layouter over a sink that runs out of rows, with every entry point.
InitFaulty ==
    /\ constants \in ConstantsChoices
    /\ regions = <<>>
    /\ columns = <<>>
    /\ table_columns = {}
    /\ cs = CsNew(SmallSink)
    /\ shapes = <<>>
    /\ batch = Idle
    /\ table = NoTable
    /\ last = [op |-> "new"]
    /\ calls = 0

NextFaulty ==
    \/ AssignRegion
    \/ AssignRegionsBegin
    \/ \E i \in 1 .. MaxCalls : i \in DOMAIN batch.workers /\ WorkerEnter(i)
    \/ \E i \in 1 .. MaxCalls : i \in DOMAIN batch.workers /\ WorkerRun(i)
    \/ \E i \in 1 .. MaxCalls : i \in DOMAIN batch.workers /\ WorkerExit(i)
    \/ AssignRegionsEnd
    \/ AssignTableBegin
    \/ AssignCell
    \/ AssignTableErr
    \/ AssignTableEnd
    \/ ConstrainInstance

SpecFaulty == InitFaulty /\ [][NextFaulty]_vars

----------------------------------------------------------------------------
(* Properties *)

OccupiedUntil(cols, key) == IF key \in DOMAIN cols THEN cols[key] ELSE 0

ConstantCells(sink) == {x \in sink.cells : x.by = ByConstant}

ConstantCopies(sink) == {x \in sink.copies : x.by = ByConstant}

ConstantRows(sink) == {x.row : x \in ConstantCells(sink)}

RegionCells(sink) == {x \in sink.cells : x.by[1] = "region"}

\* A step that is one whole assign_region call.
AssignRegionStep ==
    /\ Len(regions') = Len(regions) + 1
    /\ last'.op = "assign_region"

\* The region's start is the largest occupied-until of the keys it touches,
\* 0 when it touches none.
StartIsMaxOccupied ==
    LET touched == shapes'[Len(shapes')].columns
        start == regions'[Len(regions')]
    IN  /\ \A key \in touched : start >= OccupiedUntil(columns, key)
        /\ touched # {} => \E key \in touched : start = OccupiedUntil(columns, key)
        /\ touched = {} => start = 0

\* C1 as stated: in every assign_region call the start of the new region is
\* the maximum occupied-until of the touched keys (0 for a fresh key or no
\* key), and after the call every touched key's occupied-until is
\* region_start + row_count.
C1_PlacementAsStated ==
    [][AssignRegionStep =>
        LET shape == shapes'[Len(shapes')]
            start == regions'[Len(regions')]
        IN  /\ StartIsMaxOccupied
            /\ \A key \in shape.columns :
                    columns'[key] = start + shape.row_count]_vars

\* C1 amended: the start is that maximum, and after the call every touched
\* key's occupied-until is region_start + row_count, except that the first
\* constants column, when the region touches it, is further advanced by the
\* number of constants the call resolved.
C1_Placement ==
    [][AssignRegionStep =>
        LET shape == shapes'[Len(shapes')]
            start == regions'[Len(regions')]
            resolved == Cardinality(ConstantCells(cs') \ ConstantCells(cs))
        IN  /\ StartIsMaxOccupied
            /\ \A key \in shape.columns :
                    columns'[key] = start + shape.row_count
                        + (IF constants # <<>> /\ key = constants[1]
                           THEN resolved ELSE 0)]_vars

\* A second region stacked on the first one (start 2 after a region of two
\* rows on a shared column) that also touches the constants column and has a
\* constant resolved.
C1_Witness ==
    /\ Len(regions) = 2
    /\ regions[2] = 2
    /\ shapes[1].columns \cap shapes[2].columns # {}
    /\ constants # <<>>
    /\ constants[1] \in shapes[2].columns
    /\ columns[constants[1]] > regions[2] + shapes[2].row_count

\* C2: two distinct regions that touch a common region-column key occupy
\* disjoint row ranges, and no (column, row) cell is written by two regions.
C2_NoOverlap ==
    /\ Len(shapes) = Len(regions)
    /\ \A i, j \in 1 .. Len(regions) :
        (i < j /\ shapes[i].columns \cap shapes[j].columns # {}) =>
            \/ regions[i] + shapes[i].row_count <= regions[j]
            \/ regions[j] + shapes[j].row_count <= regions[i]
    /\ \A x, y \in RegionCells(cs) :
        (x.column = y.column /\ x.row = y.row) => x.by = y.by

\* Two regions of two rows each that wrote the same column.
C2_Witness ==
    /\ Len(regions) = 2
    /\ shapes[1].row_count = 2
    /\ shapes[2].row_count = 2
    /\ \E x, y \in RegionCells(cs) :
        x.column = y.column /\ x.by = ByRegion(0) /\ y.by = ByRegion(1) /\ x.row = 1 /\ y.row = 2

\* C3: a region that requests a constant while no constants column is
\* configured makes assign_region return NotEnoughColumnsForConstants, and
\* no constant row and no constant equality constraint reaches the sink.
C3_NoConstantsColumn ==
    (/\ last.op = "assign_region"
     /\ constants = <<>>
     /\ last.constants_to_assign # <<>>)
        => /\ last.result = "NotEnoughColumnsForConstants"
           /\ ConstantCells(cs) = {}
           /\ ConstantCopies(cs) = {}

\* Two constants requested by one region with no constants column.
C3_Witness ==
    /\ last.op = "assign_region"
    /\ constants = <<>>
    /\ Len(last.constants_to_assign) = 2
    /\ last.result = "NotEnoughColumnsForConstants"

\* The number of equality constraints the operations of a definition issue
\* themselves (constrain_equal, assign_advice_from_instance).
RECURSIVE CopiesIssued(_, _)
CopiesIssued(assignment, i) ==
    IF i > Len(assignment) THEN 0
    ELSE (IF assignment[i].op \in {"constrain_equal", "assign_advice_from_instance"}
          THEN 1 ELSE 0) + CopiesIssued(assignment, i + 1)

\* The next-free-row counter that the resolver of this step starts from.
CounterAtResolve ==
    LET shape == shapes'[Len(shapes')]
    IN  IF constants[1] \in shape.columns
        THEN regions'[Len(regions')] + shape.row_count
        ELSE OccupiedUntil(columns, constants[1])

\* C4: with a constants column configured, the pending constants of a region
\* are resolved in request order: entry i is written once into the first
\* constants column at counter + i - 1 and tied by one equality constraint to
\* the target cell's global row; n entries advance the counter by n and
\* produce n equality constraints.
C4_ResolveInOrder ==
    [][(AssignRegionStep /\ constants # <<>> /\ last'.result = "Ok") =>
        LET entries == last'.constants_to_assign
            n == Len(entries)
            counter == CounterAtResolve
        IN  /\ \A i \in 1 .. n :
                LET cell == entries[i][2]
                IN  /\ [column |-> constants[1], row |-> counter + i - 1,
                        value |-> entries[i][1], by |-> ByConstant] \in cs'.cells
                    /\ [left_column |-> constants[1], left_row |-> counter + i - 1,
                        right_column |-> cell.column,
                        right_row |-> regions'[cell.region_index + 1] + cell.row_offset,
                        by |-> ByConstant] \in cs'.copies
            /\ Cardinality(ConstantCells(cs') \ ConstantCells(cs)) = n
            /\ Cardinality(ConstantCopies(cs') \ ConstantCopies(cs)) = n
            /\ cs'.copy_count = cs.copy_count + n + CopiesIssued(last'.assignment, 1)
            /\ columns'[constants[1]] = counter + n]_vars

\* A second region, starting at row 2, has two different constants resolved
\* behind a constant of the first region.
C4_Witness ==
    /\ last.op = "assign_region"
    /\ last.result = "Ok"
    /\ constants # <<>>
    /\ Len(regions) = 2
    /\ regions[2] = 2
    /\ Len(last.constants_to_assign) = 2
    /\ last.constants_to_assign[1][1] # last.constants_to_assign[2][1]
    /\ last.constants_to_assign[1][2] # last.constants_to_assign[2][2]
    /\ Cardinality(ConstantCells(cs)) = 3

SetMax(S) == CHOOSE m \in S : \A x \in S : m >= x

SetMin(S) == CHOOSE m \in S : \A x \in S : m <= x

\* C5 as stated: over the whole lifetime every resolved constant lands on
\* the row immediately after the previously resolved constant's row.
C5_ConsecutiveAsStated ==
    [][LET old == ConstantRows(cs)
           new == ConstantRows(cs') \ old
       IN  /\ new # {} => new = SetMin(new) .. SetMax(new)
           /\ (new # {} /\ old # {}) => SetMin(new) = SetMax(old) + 1]_vars

\* C5 amended: the constants resolved by one call land on consecutive rows
\* above every earlier constant, starting at the counter kept in the first
\* constants column's occupied-until entry, which persists across calls; the
\* first of them lands immediately after the previous constant (row 0 for
\* the very first) unless a region that touches the constants column was
\* placed in between, and then it lands on the end row of such a region.
C5_Consecutive ==
    [][LET old == ConstantRows(cs)
           new == ConstantRows(cs') \ old
           first == IF old = {} THEN 0 ELSE SetMax(old) + 1
       IN  new # {} =>
            /\ new = SetMin(new) .. SetMax(new)
            /\ Cardinality(ConstantCells(cs') \ ConstantCells(cs)) = Cardinality(new)
            /\ SetMin(new) >= first
            /\ columns'[constants[1]] = SetMax(new) + 1
            /\ SetMin(new) # first =>
                \E i \in 1 .. Len(regions') :
                    /\ constants[1] \in shapes'[i].columns
                    /\ SetMin(new) = regions'[i] + shapes'[i].row_count]_vars

\* Constants resolved by two calls, the second call's constant not on the row
\* after the first call's, because the second region wrote the constants
\* column.
C5_Witness ==
    /\ Len(regions) = 2
    /\ constants # <<>>
    /\ constants[1] \in shapes[2].columns
    /\ ConstantRows(cs) = {0, 2}

\* The last call was an assign_regions that returned Ok, on definitions that
\* assign_region also accepts one at a time.
BatchReturnedOk ==
    /\ last.op = "assign_regions"
    /\ last.result = "Ok"
    /\ last.sequential.result = "Ok"

Keys == AdviceColumns \cup FixedColumns \cup Selectors

\* C6: the region starts and the per-column occupied-until values that
\* assign_regions produces are those that assign_region produces when given
\* the same definitions one at a time, in submission order, from the same
\* layouter state.
C6_BatchPlacementAsSequential ==
    BatchReturnedOk =>
        /\ regions = last.sequential.regions
        /\ \A key \in Keys :
            OccupiedUntil(columns, key) = OccupiedUntil(last.sequential.columns, key)

\* The regions of the last batch touch pairwise disjoint sets of keys.
BatchColumnsDisjoint ==
    \A i, j \in (last.region_index + 1) .. Len(regions) :
        i # j => shapes[i].columns \cap shapes[j].columns = {}

\* C7: after a batch of regions touching pairwise disjoint column sets, under
\* every interleaving of the workers, the constants column holds the same
\* constants (row, value, equality target) as after running the same regions
\* one at a time in submission order.
C7_BatchConstantsAsSequential ==
    (BatchReturnedOk /\ BatchColumnsDisjoint) =>
        /\ ConstantCells(cs) = ConstantCells(last.sequential.cs)
        /\ ConstantCopies(cs) = ConstantCopies(last.sequential.cs)

\* The columns a table wrote to, and the rows it wrote in one of them, as
\* the sink saw them.
TableTouched(sink, by) == {x.column : x \in {y \in sink.cells : y.by = by}}

TableRows(sink, by, column) ==
    {x.row : x \in {y \in sink.cells : y.by = by /\ y.column = column}}

\* Every touched column is assigned on exactly the rows 0 .. len - 1.
TableCovered(sink, by, len) ==
    \A c \in TableTouched(sink, by) : TableRows(sink, by, c) = 0 .. (len - 1)

\* A step in which the table definition has returned Ok and assign_table
\* runs its finalization.
TableFinalizeStep ==
    /\ table.phase = "assigning"
    /\ table'.phase # "assigning"
    /\ last'.assignment = "Ok"

\* C8: when the touched table columns do not all have one length L with
\* every row 0 .. L-1 assigned, finalization fails with Error::Synthesis, no
\* column is added to the registry and no forward fill is issued.
C8_TableMismatchFails ==
    [][(/\ TableFinalizeStep
        /\ TableTouched(cs, table.by) # {}
        /\ ~ \E len \in 1 .. (MaxOffset + 1) : TableCovered(cs, table.by, len))
        => /\ last'.result = "Synthesis"
           /\ table_columns' = table_columns
           /\ cs'.fills = cs.fills
           /\ cs'.fill_count = cs.fill_count]_vars

\* A table with one column assigned on rows 0 and 1 and another on row 0
\* only has failed.
C8_Witness ==
    /\ last.op = "assign_table"
    /\ last.result = "Synthesis"
    /\ last.assignment = "Ok"
    /\ \E p, q \in TableColumns :
        /\ TableRows(cs, last.by, p) = {0, 1}
        /\ TableRows(cs, last.by, q) = {0}

\* C9: when every touched column is assigned on rows 0 .. L-1 with the same
\* L, assign_table returns Ok, issues exactly one forward fill per touched
\* column, from row L and with a value written at row 0 of that column, and
\* adds every touched column to the registry.
C9_TableFinalized ==
    [][\A len \in 1 .. (MaxOffset + 1) :
        (/\ TableFinalizeStep
         /\ TableTouched(cs, table.by) # {}
         /\ TableCovered(cs, table.by, len))
         => LET touched == TableTouched(cs, table.by)
                filled == cs'.fills \ cs.fills
            IN  /\ last'.result = "Ok"
                /\ table_columns' = table_columns \cup touched
                /\ {f.column : f \in filled} = touched
                /\ Cardinality(filled) = Cardinality(touched)
                /\ cs'.fill_count = cs.fill_count + Cardinality(touched)
                /\ \A f \in filled :
                    /\ f.from_row = len
                    /\ [column |-> f.column, row |-> 0, value |-> f.value,
                        by |-> table.by] \in cs.cells]_vars

\* A first table of two columns has been finalized, each column filled from
\* row 1 with its own row-0 value.
C9_Witness ==
    /\ last.op = "assign_table"
    /\ last.result = "Ok"
    /\ calls = 1
    /\ table_columns = TableColumns
    /\ \E f, g \in cs.fills :
        /\ f.column # g.column
        /\ f.value # g.value
        /\ f.from_row = 1
        /\ g.from_row = 1

\* C10: the registry of finalized table columns only grows, and an
\* assign_cell to a column of the registry returns an error without any
\* write reaching the sink (and without being recorded by the table).
C10_FinalizedColumnRejected ==
    [][/\ table_columns \subseteq table_columns'
       /\ (/\ table.phase = "assigning"
           /\ table'.phase = "assigning"
           /\ table'.cells = table.cells + 1
           /\ table'.cell[1].column \in table_columns)
           => /\ table'.result = "Synthesis"
              /\ cs' = cs
              /\ table'.default_and_assigned = table.default_and_assigned]_vars

\* A later table has tried to assign a cell of a column that an earlier,
\* successful assign_table finalized.
C10_Witness ==
    /\ table.phase = "assigning"
    /\ table.cell # None
    /\ table.cell[1].column \in table_columns
    /\ table.result = "Synthesis"
    /\ \E f \in cs.fills : f.column = table.cell[1].column

\* C11: an assign_table call that fails after an assign_cell was rejected for
\* a column of the registry leaves the registry as it was when the call
\* began (the view borrows it as used_columns).
C11_FailedReuseKeepsRegistry ==
    [][/\ (table.phase = "idle" /\ table'.phase = "assigning")
            => table'.used_columns = table_columns
       /\ (/\ table.phase = "assigning"
           /\ table'.phase # "assigning"
           /\ table.cell # None
           /\ table.result = "Synthesis"
           /\ last'.result \notin {"Ok", "Panic"})
           => (table.cell[1].column \in table.used_columns
                => table_columns' = table.used_columns)]_vars

\* A second table assigned a fresh column, then a column that the first
\* table finalized, and returned the error.
C11_Witness ==
    /\ last.op = "assign_table"
    /\ last.result = "Synthesis"
    /\ last.assignment = "Err"
    /\ last.cell[1].column \in table_columns
    /\ \E c \in TableColumns \ table_columns : TableRows(cs, last.by, c) = {0}
    /\ \A c \in table_columns : TableRows(cs, last.by, c) = {}

\* C12: regions is append-only.  No step of assign_region, assign_regions
\* (workers included), assign_table or constrain_instance, successful or
\* failing, shortens it or changes an entry; a region placed by assign_region
\* gets the index Len(regions), the sub-regions of a batch get the indices
\* from Len(regions) on, and the writes of a region carry that index.
C12_RegionsAppendOnly ==
    [][/\ Len(regions') >= Len(regions)
       /\ \A i \in 1 .. Len(regions) : regions'[i] = regions[i]
       /\ last'.op \in {"assign_table", "constrain_instance"} => regions' = regions
       /\ AssignRegionStep =>
            \A x \in RegionCells(cs') \ RegionCells(cs) : x.by = ByRegion(Len(regions))
       /\ (batch.phase = "idle" /\ batch'.phase = "running") =>
            /\ batch'.region_index = Len(regions)
            /\ Len(regions') = Len(regions) + Len(batch'.workers)
       /\ (batch.phase = "running" /\ batch'.phase = "idle") =>
            \A x \in RegionCells(cs') \ RegionCells(cs) :
                /\ x.by[2] >= batch.region_index
                /\ x.by[2] < Len(regions)]_vars

\* A region was placed by a call, then a second one, stacked on it, by a
\* call that failed in its commit pass on the sink.
C12_Witness ==
    /\ Len(regions) = 2
    /\ regions[2] > regions[1]
    /\ last.op = "assign_region"
    /\ last.result = "SinkError"
    /\ last.failed = "commit"

\* C13: the occupied-until value of every region-column key, the entry of
\* the constants column with the updates of the constant resolver included,
\* never decreases.
C13_OccupancyMonotone ==
    [][/\ DOMAIN columns \subseteq DOMAIN columns'
       /\ \A key \in Keys \cup {Fixed(1)} \cup DOMAIN columns :
            OccupiedUntil(columns', key) >= OccupiedUntil(columns, key)]_vars

\* The entry of the constants column was raised by a region, then by the
\* constants of that region, then by a second region and its constant.
C13_Witness ==
    /\ constants # <<>>
    /\ Len(regions) = 2
    /\ \A i \in 1 .. 2 : constants[1] \in shapes[i].columns
    /\ Cardinality(ConstantRows(cs)) = 2
    /\ columns[constants[1]] = 4

\* C14: the row ranges [region_start, region_start + row_count) that Phase A
\* of assign_regions hands to the fork of the sink are pairwise disjoint.
C14_ForkRangesDisjoint ==
    batch.phase = "running" =>
        \A i, j \in DOMAIN batch.ranges :
            i < j => \/ batch.ranges[i][2] <= batch.ranges[j][1]
                     \/ batch.ranges[j][2] <= batch.ranges[i][1]

\* Whether a row lies in the range <<start, end>> of a sub-region.
InRange(row, range) == range[1] <= row /\ row < range[2]

\* C15 as stated: every row a worker sends to its sub-sink, both rows of
\* every equality constraint included, lies in the range of its own region.
C15_WorkerRowsInRangeAsStated ==
    batch.phase = "running" =>
        \A i \in DOMAIN batch.workers :
            LET sink == batch.workers[i].region.cs
            IN  /\ \A x \in sink.cells : InRange(x.row, batch.ranges[i])
                /\ \A c \in sink.copies :
                    /\ InRange(c.left_row, batch.ranges[i])
                    /\ InRange(c.right_row, batch.ranges[i])

\* C15 amended: every write and selector activation of a worker, and the row
\* of every cell of its own region in an equality constraint, lies in the
\* range of its region; the other row of an equality constraint is the row
\* of an instance cell, or of a cell of a region placed before, which
\* constrain_equal resolves through that region's start, and may lie outside.
C15_WorkerRowsInRange ==
    batch.phase = "running" =>
        \A i \in DOMAIN batch.workers :
            LET w == batch.workers[i]
                sink == w.region.cs
                region_index == batch.region_index + i - 1
            IN  /\ \A x \in sink.cells :
                    InRange(x.row, batch.ranges[i]) /\ x.by = ByRegion(region_index)
                /\ \A c \in sink.copies :
                    /\ InRange(c.left_row, batch.ranges[i])
                    /\ \/ InRange(c.right_row, batch.ranges[i])
                       \/ c.right_column.kind = "instance"
                       \/ \E j \in 1 .. (w.next - 1) :
                            LET o == w.assignment[j]
                            IN  /\ o.op = "constrain_equal"
                                /\ o.right_region < region_index
                                /\ c.right_column = o.column
                                /\ c.right_row =
                                    regions[o.right_region + 1] + o.right_offset

\* A worker whose region starts at row 2 has written a cell of its range and
\* tied it to a cell of the region placed before, at row 0.
C15_Witness ==
    /\ batch.phase = "running"
    /\ \E i \in DOMAIN batch.workers :
        /\ batch.ranges[i][1] = 2
        /\ \E x \in batch.workers[i].region.cs.cells : x.row = 2
        /\ \E c \in batch.workers[i].region.cs.copies :
            c.left_row = 2 /\ c.right_row = 0 /\ c.right_column.kind = "advice"

\* C16: between the fork and the join of the last worker no step of a worker
\* changes the parent's regions, columns (the constants counter included),
\* table_columns or sink; a step changes the commit view and the sub-sink of
\* one worker only, and the cloned layouter state of no worker.  The clones
\* are those of the parent's fields at the fork.
C16_WorkersLeaveParentAlone ==
    [][/\ (batch.phase = "idle" /\ batch'.phase = "running") =>
            \A i \in DOMAIN batch'.workers :
                /\ batch'.workers[i].sub_layouter.regions = regions'
                /\ batch'.workers[i].sub_layouter.columns = columns'
                /\ batch'.workers[i].sub_layouter.table_columns = table_columns'
       /\ (batch.phase = "running" /\ batch'.phase = "running") =>
            /\ UNCHANGED <<constants, regions, columns, table_columns, cs>>
            /\ \E i \in DOMAIN batch.workers :
                \A j \in DOMAIN batch.workers \ {i} :
                    batch'.workers[j] = batch.workers[j]
            /\ \A i \in DOMAIN batch.workers :
                batch'.workers[i].sub_layouter = batch.workers[i].sub_layouter]_vars

\* The second worker of a batch has written to its sub-sink before the first
\* worker, which is already running, has run any operation of its own.
C16_Witness ==
    /\ batch.phase = "running"
    /\ Len(batch.workers) = 2
    /\ batch.workers[1].at = "running"
    /\ batch.workers[1].next = 1
    /\ batch.workers[1].assignment # <<>>
    /\ batch.workers[2].region.cs.cells # {}
    /\ cs.cells = {}

\* The constants next-free-row counter: the occupied-until entry of the
\* first constants column.
Counter(cols) == OccupiedUntil(cols, constants[1])

\* The step in which assign_regions, every worker joined, returns although
\* the commit of a sub-region has returned an error.
BatchFailedStep ==
    /\ batch.phase = "running"
    /\ batch'.phase = "idle"
    /\ \E i \in DOMAIN batch.workers : batch.workers[i].region.result # "Ok"

\* The first worker, in submission order, whose commit returned an error.
FirstFailed ==
    CHOOSE i \in DOMAIN batch.workers :
        /\ batch.workers[i].region.result # "Ok"
        /\ \A j \in 1 .. (i - 1) : batch.workers[j].region.result = "Ok"

\* The step that starts a batch in which the commit of a sub-region is going
\* to return an error.
FailingBatchBegins ==
    /\ batch.phase = "idle"
    /\ batch'.phase = "running"
    /\ \E i \in DOMAIN batch'.workers :
        RunAssignment(batch'.workers[i].region, regions',
                      batch'.region_index + i - 1,
                      batch'.workers[i].assignment, 1).result # "Ok"

\* What C17 says of the return of a failed batch, the counter apart: every
\* worker has been joined, one error is returned, that of the first failed
\* worker, and no constant of the batch reaches the constants column.
FailedBatchReturns ==
    /\ \A i \in DOMAIN batch.workers : batch.workers[i].at = "exited"
    /\ last'.result # "Ok"
    /\ last'.result = batch.workers[FirstFailed].region.result
    /\ ConstantCells(cs') = ConstantCells(cs)
    /\ ConstantCopies(cs') = ConstantCopies(cs)

RECURSIVE CommittedPrefix(_, _, _, _, _)
CommittedPrefix(view, regs, region_index, assignment, i) ==
    IF i > Len(assignment) THEN assignment
    ELSE LET next == ExecOp(view, regs, region_index, assignment[i])
         IN  IF next.result # "Ok" THEN SubSeq(assignment, 1, i - 1)
             ELSE CommittedPrefix(next, regs, region_index, assignment, i + 1)

\* C18: when the sink returns an error in the commit pass of assign_region,
\* assign_region returns that error; after the failing operation nothing is
\* sent to the sink (no exit_region, no constant write, no constant equality
\* constraint); what the operations before it sent stays in the sink, and
\* the start and the occupancy recorded for the region stay recorded.
C18_CommitErrorFailFast ==
    [][(calls' = calls + 1 /\ last'.op = "assign_region" /\ last'.failed = "commit") =>
        LET region_index == Len(regions)
            shape == Shape(last'.assignment)
            start == RegionStart(columns, shape.columns)
            entered == SingleChipLayouterRegionNew(CsEnterRegion(cs))
            regs == Append(regions, start)
            prefix == CommittedPrefix(entered, regs, region_index,
                                      last'.assignment, 1)
        IN  /\ last'.result = "SinkError"
            /\ Len(prefix) < Len(last'.assignment)
            /\ cs' = RunAssignment(entered, regs, region_index, prefix, 1).cs
            /\ cs'.exited = cs.exited
            /\ cs'.entered = cs.entered + 1
            /\ ConstantCells(cs') = ConstantCells(cs)
            /\ ConstantCopies(cs') = ConstantCopies(cs)
            /\ cs.cells \subseteq cs'.cells
            /\ cs.copies \subseteq cs'.copies
            /\ regions' = regs
            /\ \A key \in shape.columns :
                    columns'[key] = start + shape.row_count
            /\ \A key \in DOMAIN columns \ shape.columns :
                    columns'[key] = columns[key]]_vars

\* A region assigned an advice cell from a constant at its first row, then
\* failed on the sink at its second row: the cell is in the sink, the region
\* was entered and not exited, and its constant was not written.
C18_Witness ==
    /\ last.op = "assign_region"
    /\ last.failed = "commit"
    /\ constants # <<>>
    /\ Len(regions) = 1
    /\ Len(last.assignment) = 2
    /\ last.assignment[1].op = "assign_advice_from_constant"
    /\ OccupiedUntil(columns, Advice(0)) = 2
    /\ \E x \in cs.cells : x.by = ByRegion(0) /\ x.row = 0
    /\ cs.entered = 1
    /\ cs.exited = 0
    /\ ConstantCells(cs) = {}

\* What the operations ops of the region region_index have to send to the
\* sink when regs holds the region starts: the (column, row) of every write
\* and selector activation, the two (column, row) of every equality
\* constraint, and the (constant, Cell) pairs the view has to buffer.
SentCells(ops, regs, region_index) ==
    {<<ops[j].column, regs[region_index + 1] + ops[j].offset>> :
        j \in {k \in DOMAIN ops : IsWrite(ops[k])}}

SentCopies(ops, regs, region_index) ==
    {<<ops[j].column, regs[region_index + 1] + ops[j].offset,
       ops[j].column, regs[ops[j].right_region + 1] + ops[j].right_offset>> :
        j \in {k \in DOMAIN ops : ops[k].op = "constrain_equal"}}
    \cup
    {<<ops[j].column, regs[region_index + 1] + ops[j].offset,
       ops[j].instance, ops[j].row>> :
        j \in {k \in DOMAIN ops : ops[k].op = "assign_advice_from_instance"}}

CellsOfConstants(ops, region_index) ==
    LET asked == SelectSeq(ops, LAMBDA o :
                    o.op \in {"assign_advice_from_constant", "constrain_constant"})
    IN  [j \in DOMAIN asked |->
            <<asked[j].constant,
              [region_index |-> region_index, row_offset |-> asked[j].offset,
               column |-> asked[j].column]>>]

\* What a sink holds of the region region_index.
CellsSent(sink, region_index) ==
    {<<x.column, x.row>> : x \in {y \in sink.cells : y.by = ByRegion(region_index)}}

CopiesSent(sink, region_index) ==
    {<<c.left_column, c.left_row, c.right_column, c.right_row>> :
        c \in {y \in sink.copies : y.by = ByRegion(region_index)}}

\* The operations a worker's commit view has answered with Ok.
WorkerDone(w) ==
    SubSeq(w.assignment, 1,
           IF w.region.result = "Ok" THEN w.next - 1 ELSE w.next - 2)

\* C19: every row the commit view sends to the sink is the start of the
\* cell's region plus the cell's local offset.  Writes and selector
\* activations use the start of the current region; the Cells handed back
\* (seen in the buffered constants) carry the local offset and the current
\* region index; an equality constraint resolves each of its two cells through
\* regions at that cell's own index, which is in bounds for the current
\* region and for every region placed before.  Checked on every assign_region
\* call that reached the commit pass and on every state of every worker of a
\* batch.
C19_RowsAreStartPlusOffset ==
    [][/\ (calls' = calls + 1 /\ last'.op = "assign_region" /\ last'.failed # "probe") =>
            LET region_index == Len(regions)
                entered == SingleChipLayouterRegionNew(CsEnterRegion(cs))
                ops == CommittedPrefix(entered, regions', region_index,
                                       last'.assignment, 1)
            IN  /\ CellsSent(cs', region_index) = SentCells(ops, regions', region_index)
                /\ CopiesSent(cs', region_index) = SentCopies(ops, regions', region_index)
                /\ last'.failed # "commit" =>
                        last'.constants_to_assign = CellsOfConstants(ops, region_index)
                /\ \A j \in DOMAIN ops : ops[j].op = "constrain_equal" =>
                        ops[j].right_region + 1 \in 1 .. (region_index + 1)
       /\ batch'.phase = "running" =>
            \A i \in DOMAIN batch'.workers :
                LET w == batch'.workers[i]
                    region_index == batch'.region_index + i - 1
                    ops == WorkerDone(w)
                IN  /\ CellsSent(w.region.cs, region_index)
                            = SentCells(ops, regions', region_index)
                    /\ CopiesSent(w.region.cs, region_index)
                            = SentCopies(ops, regions', region_index)
                    /\ w.region.constants = CellsOfConstants(ops, region_index)
                    /\ w.region.cs.cells = {x \in w.region.cs.cells :
                                                x.by = ByRegion(region_index)}
                    /\ \A j \in DOMAIN ops : ops[j].op = "constrain_equal" =>
                            ops[j].right_region + 1 \in 1 .. (region_index + 1)]_vars

\* A region that starts at row 2 has written its local row 0 at row 2 and
\* tied that cell to the cell at local row 1 of the region of index 0, that
\* is to row 1.
C19_Witness ==
    /\ Len(regions) = 2
    /\ regions = <<0, 2>>
    /\ <<Advice(0), 2>> \in CellsSent(cs, 1)
    /\ <<Advice(0), 2, Advice(0), 1>> \in CopiesSent(cs, 1)

\* C20: whenever assign_table passes the length check and reaches the fill,
\* every column recorded as touched has a default value, so
\* default_val.unwrap() does not panic, whatever assign_cell calls the table
\* definition made, those whose error it did not propagate included.
C20_DefaultSetAtFill ==
    [][(TableFinalizeStep /\ FirstUnused(table.default_and_assigned) # None) =>
        /\ \A c \in DOMAIN table.default_and_assigned :
                table.default_and_assigned[c].default # None
        /\ last'.result # "Panic"]_vars

\* One assign_cell call of the table definition of the running assign_table.
AssignCellStep ==
    /\ table.phase = "assigning"
    /\ table'.phase = "assigning"
    /\ table'.cells = table.cells + 1

\* The default recorded for a column, None when the column has no entry.
DefaultOf(default_and_assigned, column) ==
    IF column \in DOMAIN default_and_assigned
    THEN default_and_assigned[column].default
    ELSE None

\* C21: within one table the value written at row 0 of a column becomes the
\* column's default; a second assign_cell at row 0 of the same column
\* returns Error::Synthesis and leaves the recorded default equal to the
\* first row-0 value.
C21_RowZeroIsDefault ==
    [][(AssignCellStep /\ table'.cell[1].offset = 0) =>
        LET o == table'.cell[1]
            before == DefaultOf(table.default_and_assigned, o.column)
            after == DefaultOf(table'.default_and_assigned, o.column)
        IN  /\ (table'.result = "Ok") => (before = None /\ after = Some(o.value))
            /\ (before # None) =>
                    (table'.result = "Synthesis" /\ after = before)]_vars

\* A second value, different from the first, was offered for row 0 of a
\* column of the running table and refused.
C21_Witness ==
    /\ table.phase = "assigning"
    /\ table.result = "Synthesis"
    /\ table.cell # None
    /\ table.cell[1].offset = 0
    /\ table.cell[1].column \notin table.used_columns
    /\ DefaultOf(table.default_and_assigned, table.cell[1].column) # None
    /\ DefaultOf(table.default_and_assigned, table.cell[1].column)
            # Some(table.cell[1].value)

\* C22: when the region definition returns an error during the probe pass,
\* assign_region returns that error and has no effect: the region starts and
\* the per-column occupancy are unchanged, no region index is consumed, and
\* the sink has received nothing, not even enter_region.
C22_ProbeErrorNoEffect ==
    [][(calls' = calls + 1 /\ last'.op = "assign_region"
            /\ Probe(last'.assignment) # "Ok") =>
        /\ last'.result = "DefinitionError"
        /\ regions' = regions
        /\ Len(regions') = Len(regions)
        /\ columns' = columns
        /\ cs' = cs
        /\ cs'.entered = cs.entered
        /\ table_columns' = table_columns]_vars

\* After one region was placed and committed, a definition wrote a cell on
\* the probe and then returned an error: the layouter still holds the one
\* region and the sink the one enter_region.
C22_Witness ==
    /\ last.op = "assign_region"
    /\ calls = 2
    /\ Len(last.assignment) = 2
    /\ last.assignment[1].op = "assign_advice"
    /\ last.assignment[2].op = "return_err"
    /\ last.result = "DefinitionError"
    /\ Len(regions) = 1
    /\ OccupiedUntil(columns, Advice(0)) > 0
    /\ cs.entered = 1

\* C23: after any sequence of assign_region and assign_regions calls, no row
\* of the first constants column written by the resolution of constants lies
\* inside the row range of a region that touches that fixed column, and no
\* (column, row) cell holds both a resolved constant and a region's cell.
C23_ConstantsOutsideRegions ==
    /\ Len(shapes) = Len(regions)
    /\ \A x \in ConstantCells(cs) :
        /\ constants # <<>>
        /\ x.column = constants[1]
        /\ \A i \in 1 .. Len(regions) :
                constants[1] \in shapes[i].columns =>
                    ~(regions[i] <= x.row /\ x.row < regions[i] + shapes[i].row_count)
        /\ \A y \in RegionCells(cs) : ~(y.column = x.column /\ y.row = x.row)

\* A constant was resolved to row 0 of the constants column, and a region
\* submitted afterwards wrote that same fixed column, from row 1.
C23_Witness ==
    /\ constants # <<>>
    /\ Len(regions) = 2
    /\ regions[2] = 1
    /\ constants[1] \in shapes[2].columns
    /\ \E x \in ConstantCells(cs) : x.column = constants[1] /\ x.row = 0
    /\ \E y \in RegionCells(cs) :
            y.column = constants[1] /\ y.row = 1 /\ y.by = ByRegion(1)

\* C24: an assign_table call whose table definition assigns no cell at all
\* (it makes no assign_cell call, or only calls that are refused) and returns
\* Ok fails with Error::Synthesis, adds nothing to the registry of finalized
\* table columns and issues no forward fill.
C24_EmptyTableFails ==
    [][(TableFinalizeStep /\ TableTouched(cs, table.by) = {}) =>
        /\ last'.result = "Synthesis"
        /\ table_columns' = table_columns
        /\ cs'.fills = cs.fills
        /\ cs'.fill_count = cs.fill_count
        /\ cs'.cells = cs.cells]_vars

\* After a first table was finalized, a second assign_table call whose
\* definition assigned no cell has failed, and the registry and the fills
\* are those of the first table.
C24_Witness ==
    /\ last.op = "assign_table"
    /\ last.result = "Synthesis"
    /\ last.assignment = "Ok"
    /\ calls = 2
    /\ TableTouched(cs, last.by) = {}
    /\ table_columns # {}
    /\ {f.column : f \in cs.fills} = table_columns
    /\ cs.entered = 2
    /\ cs.exited = 2

====
